---- MODULE Spec2Model ----
(***************************************************************************)
(* Model of geemap/cartoee.py: each action is one call of a module-level   *)
(* function against stubbed collaborators (remote imagery service,         *)
(* plotting toolkit).  The variables record the call (op, args), the       *)
(* ordered effects it had on the collaborators (trace), the exception it   *)
(* propagated (raised) and what it computed or handed over (result).       *)
(* The module keeps no state between calls, so a behaviour is one call     *)
(* made from the initial state (Idle), with freshly stubbed collaborators. *)
(***************************************************************************)
EXTENDS Integers, Sequences, FiniteSets, TLC

VARIABLES op, args, trace, raised, result

vars == <<op, args, trace, raised, result>>

\* ---- bounds of the explored inputs ----
MaxCoord == 4
MaxInterval == 3
MaxGrid == 3

Coords == (0 - MaxCoord)..MaxCoord
Intervals == 1..MaxInterval

\* ---- Python values ----
None == [some |-> FALSE]
Some(v) == [some |-> TRUE, val |-> v]

NoError == [type |-> "none", msg |-> ""]
Error(t, m) == [type |-> t, msg |-> m]

Init ==
    /\ op = "init"
    /\ args = None
    /\ trace = <<>>
    /\ raised = NoError
    /\ result = None

Idle == op = "init"

\* ---- _buffer_box ----
\* Python's % with a positive right operand yields a value in 0..interval-1,
\* the same value TLA+'s % yields.
RoundDown(v, interval) ==
    IF v % interval # 0 THEN v - (v % interval) ELSE v

RoundUpMutant(v, interval) ==
    IF v % interval # 0 THEN v + (v % interval) ELSE v

RoundUp(v, interval) ==
    IF v % interval # 0 THEN v + (interval - (v % interval)) ELSE v

_buffer_box(bbox, interval) ==
    <<RoundDown(bbox[1], interval), RoundUp(bbox[2], interval),
      RoundDown(bbox[3], interval), RoundUp(bbox[4], interval)>>

BufferBox ==
    /\ Idle
    /\ \E b \in Coords \X Coords \X Coords \X Coords, i \in Intervals :
        /\ op' = "_buffer_box"
        /\ args' = [bbox |-> b, interval |-> i]
        /\ trace' = <<>>
        /\ raised' = NoError
        /\ result' = _buffer_box(b, i)

\* ---- bbox_to_extent ----
bbox_to_extent_rot(bbox) == <<bbox[1], bbox[3], bbox[4], bbox[2]>>

bbox_to_extent(bbox) == <<bbox[1], bbox[3], bbox[2], bbox[4]>>

\* One call, or a second call on the tuple the previous call returned.
BboxToExtent ==
    \/ /\ Idle
       /\ \E b \in Coords \X Coords \X Coords \X Coords :
        /\ op' = "bbox_to_extent"
        /\ args' = [bbox |-> b, first |-> b, calls |-> 1]
        /\ trace' = <<>>
        /\ raised' = NoError
        /\ result' = bbox_to_extent(b)
    \/ /\ op = "bbox_to_extent"
       /\ args.calls = 1
       /\ op' = op
       /\ args' = [bbox |-> result, first |-> args.first, calls |-> 2]
       /\ trace' = <<>>
       /\ raised' = NoError
       /\ result' = bbox_to_extent(result)

\* ---- build_palette ----
\* A string is modelled as the sequence of its tokens: "," and "#" are tokens
\* of their own, the six hex digits of a colour are one token.
PaletteN == 256

\* The colour-map registry: the colour of ramp `cmap` at position k/(n-1).
colormap(cmap, k, n) == [cmap |-> cmap, at |-> k, of |-> n - 1]

rgb2hex(colour) == <<"#", colour>>

build_palette(cmap, n) ==
    [i \in 1..n |-> rgb2hex(colormap(cmap, i - 1, n))]

\* sep.join(strs): the strings in order with sep between neighbours
\* (computed by halves to keep the recursion shallow).
RECURSIVE Join(_, _)
Join(sep, strs) ==
    IF Len(strs) = 0 THEN <<>>
    ELSE IF Len(strs) = 1 THEN strs[1]
    ELSE LET h == Len(strs) \div 2
         IN  Join(sep, SubSeq(strs, 1, h)) \o sep \o Join(sep, SubSeq(strs, h + 1, Len(strs)))

\* ---- add_layer ----
Out(t, e, r) == [trace |-> t, raised |-> e, result |-> r]

\* The ring the remote service returns for a rectangle (west, south, east, north).
Rectangle(r) ==
    <<<<r[1], r[2]>>, <<r[3], r[2]>>, <<r[3], r[4]>>, <<r[1], r[4]>>, <<r[1], r[2]>>>>

Min(S) == CHOOSE m \in S : \A x \in S : m <= x
Max(S) == CHOOSE m \in S : \A x \in S : m >= x

RingExtent(ring) ==
    LET x == {ring[k][1] : k \in DOMAIN ring}
        y == {ring[k][2] : k \in DOMAIN ring}
    IN  <<Min(x), Max(x), Min(y), Max(y)>>

\* Python truthiness of dims: a non-zero int, a non-empty list/tuple/str.
DimsTruthy(dims) ==
    IF dims.type = "int" THEN dims.val[1] # 0
    ELSE IF dims.type = "NoneType" THEN FALSE
    ELSE Len(dims.val) > 0

MapTruthy(m) == m.some /\ DOMAIN m.val # {}

\* `if vis_params:` is skipped for None and for an empty mapping.
LayerArgs(dims, region, map_region, cmap, vis_params) ==
    LET a0 == "format" :> "png"
        a1 == IF region.some THEN ("region" :> map_region) @@ a0 ELSE a0
        a2 == IF DimsTruthy(dims) THEN ("dimensions" :> dims.val) @@ a1 ELSE a1
        a3 == IF MapTruthy(vis_params) /\ cmap.some
              THEN ("palette" :> Join(<<",">>, build_palette(cmap.val, PaletteN))) @@ a2
              ELSE a2
    IN  IF MapTruthy(vis_params) THEN vis_params.val @@ a3 ELSE a3

FetchRetry(request, view_extent, env, t) ==
    IF env.status # 200
    THEN Out(t \o <<"getThumbUrl", "requests.get", "requests.get", "Image.open", "imshow">>,
             NoError,
             [request |-> Some(request),
              drawn |-> Some([channels |-> 4, extent |-> view_extent,
                              origin |-> "upper", transform |-> "PlateCarree"])])
    ELSE Out(t \o <<"getThumbUrl", "requests.get", "Image.open", "imshow">>, NoError,
             [request |-> Some(request),
              drawn |-> Some([channels |-> env.channels, extent |-> view_extent,
                              origin |-> "upper", transform |-> "PlateCarree"])])

\* From the thumbnail fetch on: the request has been built.
Fetch(request, view_extent, env, t) ==
    LET t2 == t \o <<"getThumbUrl", "requests.get">> IN
    IF env.status # 200
    THEN IF "error" \in DOMAIN env.body
         THEN Out(t2, Error("HTTPError", env.body.error),
                  [request |-> Some(request), drawn |-> None])
         ELSE Out(t2, Error("KeyError", "error"),
                  [request |-> Some(request), drawn |-> None])
    ELSE LET channels == IF env.channels = 2 THEN 4 ELSE env.channels
         IN  Out(t2 \o <<"Image.open", "imshow">>, NoError,
                 [request |-> Some(request),
                  drawn |-> Some([channels |-> channels, extent |-> view_extent,
                                  origin |-> "upper", transform |-> "PlateCarree"])])

NoLayer == [request |-> None, drawn |-> None]

PaletteConflictNever(cmap, vis_params) == FALSE

\* cmap together with a 'palette' key: the configuration conflict.
PaletteConflict(cmap, vis_params) ==
    MapTruthy(vis_params) /\ cmap.some /\ "palette" \in DOMAIN vis_params.val

add_layer(ax_ok, img_ok, dims, region, cmap, vis_params, env) ==
    IF ~img_ok
    THEN Out(<<>>, Error("ValueError", "provided img_obj is not of type ee.Image"), NoLayer)
    ELSE
    \* both branches of `if region is not None` end in a remote getInfo()
    LET map_region == IF region.some THEN Rectangle(region.val) ELSE env.bounds
        view_extent == IF region.some
                       THEN <<region.val[1], region.val[3], region.val[2], region.val[4]>>
                       ELSE RingExtent(map_region)
        t1 == <<"getInfo">>
    IN  IF dims.type \notin {"list", "tuple", "int"}
        THEN Out(t1, Error("ValueError", "provided dims not of type list, tuple, or int"),
                 NoLayer)
        ELSE IF ~ax_ok
        THEN Out(t1, Error("ValueError", "provided axes not of type cartopy.mpl.geoaxes.GeoAxes"),
                 NoLayer)
        ELSE IF PaletteConflict(cmap, vis_params)
        THEN Out(t1, Error("KeyError",
                           "cannot provide palette in vis_params if cmap is specified"),
                 NoLayer)
        ELSE Fetch(LayerArgs(dims, region, map_region, cmap, vis_params),
                   view_extent, env, t1)

\* Inputs of add_layer.
DimsValues ==
    { [type |-> "int", val |-> <<1000>>], [type |-> "int", val |-> <<0>>],
      [type |-> "tuple", val |-> <<500, 300>>], [type |-> "list", val |-> <<>>],
      [type |-> "str", val |-> <<1000>>], [type |-> "NoneType", val |-> <<>>] }

Regions == { None, Some(<<0 - 2, 0 - 1, 3, 2>>) }

Cmaps == { None, Some("viridis") }

UserPalette == <<"ff0000", ",", "#", "00ff00">>

LayerVisValue(k) ==
    IF k = "min" THEN 0 ELSE IF k = "max" THEN 10 ELSE UserPalette

LayerVisParams ==
    { None } \cup { Some([k \in K |-> LayerVisValue(k)]) : K \in SUBSET {"min", "max", "palette"} }

\* What the stubbed remote service answers: the image's bounds, and the
\* thumbnail response (status, decoded channel count or error body).
Envs ==
    { [bounds |-> Rectangle(<<0 - 4, 0 - 3, 4, 3>>), status |-> 200, channels |-> c,
       body |-> <<>>] : c \in {2, 3, 4} }
    \cup
    { [bounds |-> Rectangle(<<0 - 4, 0 - 3, 4, 3>>), status |-> 400, channels |-> 0,
       body |-> b] : b \in { [error |-> "quota exceeded"], [error |-> "not found"],
                             [message |-> "oops"] } }

AddLayer ==
    /\ Idle
    /\ \E ax_ok \in BOOLEAN, img_ok \in BOOLEAN, dims \in DimsValues, region \in Regions,
          cmap \in Cmaps, vis_params \in LayerVisParams, env \in Envs :
        LET out == add_layer(ax_ok, img_ok, dims, region, cmap, vis_params, env) IN
        /\ op' = "add_layer"
        /\ args' = [ax_ok |-> ax_ok, img_ok |-> img_ok, dims |-> dims, region |-> region,
                    cmap |-> cmap, vis_params |-> vis_params, env |-> env]
        /\ trace' = out.trace
        /\ raised' = out.raised
        /\ result' = out.result

\* ---- add_colorbar ----
\* str.split(sep) on a token string: the pieces between the separators.
RECURSIVE Split(_, _)
Split(str, sep) ==
    IF \A k \in DOMAIN str : str[k] # sep THEN <<str>>
    ELSE LET p == CHOOSE k \in DOMAIN str :
                      str[k] = sep /\ \A j \in 1..(k - 1) : str[j] # sep
         IN  <<SubSeq(str, 1, p - 1)>> \o Split(SubSeq(str, p + 1, Len(str)), sep)

\* [i if i[0] == "#" else "#" + i for i in hexcodes]
WithHash(hexcodes) ==
    [k \in DOMAIN hexcodes |->
        IF hexcodes[k][1] = "#" THEN hexcodes[k] ELSE <<"#">> \o hexcodes[k]]

\* Fixed rectangles of the four placements, in hundredths of the figure.
posOpts ==
    [left   |-> <<1, 25, 2, 50>>,
     right  |-> <<88, 25, 2, 50>>,
     bottom |-> <<25, 15, 50, 2>>,
     top    |-> <<25, 88, 50, 2>>]

LocNames == {"left", "right", "bottom", "top"}

\* The axes that ax.figure.add_axes(rect) creates.
FigureAxes(rect) == [kind |-> "figure_axes", rect |-> rect]
UserCax == [kind |-> "user_axes", rect |-> <<10, 10, 5, 80>>]

LocTruthy(loc) == loc.some /\ ~(loc.val.type = "str" /\ loc.val.val = "")

Without(f, key) == [k \in DOMAIN f \ {key} |-> f[k]]

Resolved(cax, t, kw) == [ok |-> TRUE, cax |-> cax, trace |-> t, kwargs |-> kw, err |-> NoError]
Unresolved(e) == [ok |-> FALSE, cax |-> UserCax, trace |-> <<>>, kwargs |-> <<>>, err |-> e]

\* A caller's cax wins over loc.
ResolveCaxPreferUser(loc, kwargs) ==
    IF "cax" \in DOMAIN kwargs
    THEN Resolved(kwargs["cax"], <<>>, Without(kwargs, "cax"))
    ELSE IF LocTruthy(loc) /\ loc.val.type = "str" /\ loc.val.val \in LocNames
    THEN Resolved(FigureAxes(posOpts[loc.val.val]), <<"add_axes">>, kwargs)
    ELSE Unresolved(Error("ValueError", "loc or cax keywords must be specified"))

\* The drawing sub-region: `if loc: ... elif "cax" in kwargs: ... else: raise`.
ResolveCax(loc, kwargs) ==
    IF LocTruthy(loc)
    THEN IF loc.val.type = "str" /\ loc.val.val \in LocNames
         THEN Resolved(FigureAxes(posOpts[loc.val.val]),
                       IF loc.val.val \in {"left", "right"}
                       THEN <<"add_axes", "subplots_adjust">>
                       ELSE <<"add_axes">>,
                       kwargs)
         ELSE Unresolved(Error("ValueError", "provided loc not of type str"))
    ELSE IF "cax" \in DOMAIN kwargs
    THEN Resolved(kwargs["cax"], <<>>, Without(kwargs, "cax"))
    ELSE Unresolved(Error("ValueError", "loc or cax keywords must be specified"))

Scalar(v) == v.type \in {"int", "float"}

\* np.linspace(a, b, n) as exact fractions: numerators over the denominator n - 1.
\* A single sample is the start point itself.
linspace(a, b, n) ==
    LET d == IF n > 1 THEN n - 1 ELSE 1
    IN  [num |-> [k \in 1..n |-> a * d + (k - 1) * (b - a)], den |-> d]

Normalize(vmin, vmax) == [kind |-> "Normalize", vmin |-> vmin, vmax |-> vmax]
BoundaryNorm(vals, ncolors) ==
    [kind |-> "BoundaryNorm", boundaries |-> vals, ncolors |-> ncolors]
get_cmap(name) == [kind |-> "named", name |-> name]
ListedColormap(hexcodes) == [kind |-> "listed", colors |-> hexcodes, N |-> Len(hexcodes)]
LinearSegmentedColormap(name, hexcodes, n) ==
    [kind |-> "linear_segmented", name |-> name, colors |-> hexcodes, N |-> n]

NoBar == [cax |-> None, cb |-> None]
BarAt(cax) == [cax |-> Some(cax), cb |-> None]

\* The first warning: `if cmap is not None: if discrete: warn`, whatever the
\* keys of vis_params.
EarlyWarning(cmap, discrete, vis_params) ==
    IF cmap.some /\ discrete THEN <<"warn">> ELSE <<>>

\* cb = ColorbarBase(cax, norm=norm, alpha=alpha, cmap=cmap, **kwargs) and the label.
\* A keyword given twice is a TypeError of the call itself; whether the
\* toolkit accepts a stray `cax` keyword is the toolkit's business (accepts_cax).
Build(cax, t, kw, vis_params, label, norm, alpha, cm, accepts_cax) ==
    IF DOMAIN kw \cap {"norm", "alpha", "cmap"} # {}
    THEN Out(t, Error("TypeError", "got multiple values for keyword argument"), BarAt(cax))
    ELSE IF "cax" \in DOMAIN kw /\ ~accepts_cax
    THEN Out(t, Error("TypeError", "got an unexpected keyword argument"), BarAt(cax))
    ELSE LET lab == IF "bands" \in DOMAIN vis_params THEN Some(vis_params["bands"])
                    ELSE label
         IN  Out(t \o <<"ColorbarBase">> \o (IF lab.some THEN <<"set_label">> ELSE <<>>),
                 NoError,
                 [cax |-> Some(cax),
                  cb |-> Some([target |-> cax, norm |-> norm, alpha |-> alpha,
                               cmap |-> cm, kwargs |-> kw, label |-> lab])])

\* The colour source, once vmin, vmax and alpha are known.
ColourSource(cax, t, kw, vis_params, cmap, discrete, label, vmin, vmax, alpha, accepts_cax) ==
    LET t1 == t \o EarlyWarning(cmap, discrete, vis_params) IN
    IF "palette" \in DOMAIN vis_params
    THEN LET pieces == Split(vis_params["palette"], ",") IN
         IF \E k \in DOMAIN pieces : Len(pieces[k]) = 0
         THEN Out(t1, Error("IndexError", "string index out of range"), BarAt(cax))
         ELSE LET hexcodes == WithHash(pieces) IN
              IF discrete
              THEN LET cm == ListedColormap(hexcodes)
                   IN  Build(cax, t1, kw, vis_params, label,
                             BoundaryNorm(linspace(vmin, vmax, cm.N + 1), cm.N),
                             alpha, cm, accepts_cax)
              ELSE Build(cax, t1, kw, vis_params, label, Normalize(vmin, vmax), alpha,
                         LinearSegmentedColormap("custom", hexcodes, 256), accepts_cax)
    ELSE IF cmap.some
    THEN Build(cax, t1 \o (IF discrete THEN <<"warn">> ELSE <<>>), kw, vis_params, label,
               Normalize(vmin, vmax), alpha, get_cmap(cmap.val), accepts_cax)
    ELSE Out(t1, Error("ValueError",
                       "cmap keyword or palette key in visParams must be provided"),
             BarAt(cax))

\* vmin, vmax and alpha; all three stay unbound when vis_params is empty.
Compose(cax, t, kw, vis_params, cmap, discrete, label, accepts_cax) ==
    IF DOMAIN vis_params = {}
    THEN Out(t, Error("UnboundLocalError", "norm"), BarAt(cax))
    ELSE IF "min" \in DOMAIN vis_params /\ ~Scalar(vis_params["min"])
    THEN Out(t, Error("ValueError", "provided min value not of scalar type"), BarAt(cax))
    ELSE IF "max" \in DOMAIN vis_params /\ ~Scalar(vis_params["max"])
    THEN Out(t, Error("ValueError", "provided max value not of scalar type"), BarAt(cax))
    ELSE IF "opacity" \in DOMAIN vis_params /\ ~Scalar(vis_params["opacity"])
    THEN Out(t, Error("ValueError", "provided opacity value of not type scalar"), BarAt(cax))
    ELSE LET vmin == IF "min" \in DOMAIN vis_params THEN vis_params["min"].v ELSE 0
             vmax == IF "max" \in DOMAIN vis_params THEN vis_params["max"].v ELSE 1
             alpha == IF "opacity" \in DOMAIN vis_params THEN vis_params["opacity"].v
                      ELSE IF "alpha" \in DOMAIN kw THEN kw["alpha"].v
                      ELSE 1
         IN  ColourSource(cax, t, kw, vis_params, cmap, discrete, label,
                          vmin, vmax, alpha, accepts_cax)

add_colorbar(ax_ok, vis_params, loc, cmap, discrete, label, kwargs, accepts_cax) ==
    IF ~ax_ok
    THEN Out(<<>>, Error("ValueError", "provided axes not of type cartopy.mpl.geoaxes.GeoAxes"),
             NoBar)
    ELSE LET r == ResolveCax(loc, kwargs) IN
         IF ~r.ok THEN Out(<<>>, r.err, NoBar)
         ELSE Compose(r.cax, r.trace, r.kwargs, vis_params, cmap, discrete, label,
                      accepts_cax)

\* Inputs of add_colorbar.  Numbers carry their Python type; opacity and
\* alpha are written in hundredths.
Num(t, n) == [type |-> t, v |-> n]

\* A vis_params mapping from one choice per key: 0 leaves the key out.
BarVisKeys(c) == {k \in {"min", "max", "opacity", "palette", "bands"} : c[k] # 0}

BarVisValue(k, n) ==
    IF k = "min" THEN (IF n = 1 THEN Num("int", 2) ELSE Num("str", 0))
    ELSE IF k = "max" THEN (IF n = 1 THEN Num("float", 8) ELSE Num("list", 0))
    ELSE IF k = "opacity" THEN (IF n = 1 THEN Num("float", 50) ELSE Num("str", 0))
    ELSE IF k = "palette" THEN (IF n = 1 THEN UserPalette ELSE <<"ff0000", ",">>)
    ELSE "B4"

BarVisParams(c) == [k \in BarVisKeys(c) |-> BarVisValue(k, c[k])]

BarVisChoices ==
    [min : 0..2, max : 0..2, opacity : 0..2, palette : 0..2, bands : 0..1]

Locs ==
    { None, Some([type |-> "str", val |-> ""]), Some([type |-> "str", val |-> "center"]),
      Some([type |-> "int", val |-> "1"]) }
    \cup { Some([type |-> "str", val |-> l]) : l \in LocNames }

BarCmaps == { None, Some("gray") }

KwargValue(k) ==
    IF k = "cax" THEN UserCax
    ELSE Num("float", 70)

BarKwargs == { [k \in K |-> KwargValue(k)] : K \in SUBSET {"cax", "alpha"} }

AddColorbar ==
    /\ Idle
    /\ \E ax_ok \in BOOLEAN, c \in BarVisChoices,
          loc \in Locs, cmap \in BarCmaps, discrete \in BOOLEAN,
          label \in {None, Some("NDVI")}, kwargs \in BarKwargs, accepts_cax \in BOOLEAN :
        LET vis_params == BarVisParams(c)
            out == add_colorbar(ax_ok, vis_params, loc, cmap, discrete, label, kwargs,
                                accepts_cax) IN
        /\ op' = "add_colorbar"
        /\ args' = [ax_ok |-> ax_ok, vis_params |-> vis_params, loc |-> loc, cmap |-> cmap,
                    discrete |-> discrete, label |-> label, kwargs |-> kwargs,
                    accepts_cax |-> accepts_cax]
        /\ trace' = out.trace
        /\ raised' = out.raised
        /\ result' = out.result

\* ---- add_gridlines ----
\* np.arange(start, stop, step) over integers, step > 0: start, start + step,
\* ... below stop.
arange(start, stop, step) ==
    LET n == IF stop > start THEN (stop - start + step - 1) \div step ELSE 0
    IN  [k \in 1..n |-> start + (k - 1) * step]

isIterable(v) == v.type \in {"list", "tuple"}

\* arr[(arr >= lo) & (arr <= hi)]
RECURSIVE Within(_, _, _, _)
Within(nums, den, lo, hi) ==
    IF Len(nums) = 0 THEN <<>>
    ELSE (IF nums[1] >= lo * den /\ nums[1] <= hi * den THEN <<nums[1]>> ELSE <<>>)
         \o Within(Tail(nums), den, lo, hi)

NoGrid == [drawn |-> FALSE]

\* The x axis: explicit xs, else interval, else n_ticks.  `extent` is
\* rebound to the buffered box, and the y axis goes on from it.
XAxis(view_extent, interval, n_ticks, xs, buffer_out) ==
    IF xs.some
    THEN [ok |-> TRUE, main |-> xs.val, extent |-> view_extent]
    ELSE IF interval.some
    \* interval[0] of a pair, or the scalar itself
    THEN LET xspace == interval.val.val[1]
             extent == IF buffer_out THEN _buffer_box(view_extent, xspace)
                       ELSE view_extent
         IN  [ok |-> TRUE,
              main |-> [type |-> "ndarray",
                        num |-> arange(extent[1], extent[2] + xspace, xspace), den |-> 1],
              extent |-> extent]
    ELSE IF n_ticks.some
    \* n_ticks[0] of a pair, or the scalar itself
    THEN LET n_x == n_ticks.val.val[1]
             pts == linspace(view_extent[1], view_extent[2], n_x)
         IN  [ok |-> TRUE,
              main |-> [type |-> "ndarray", num |-> pts.num, den |-> pts.den],
              extent |-> view_extent]
    ELSE [ok |-> FALSE, main |-> [type |-> "ndarray", num |-> <<>>, den |-> 1],
          extent |-> view_extent]

\* The y axis, from the extent the x axis left behind.
YAxis(extent0, interval, n_ticks, ys, buffer_out) ==
    IF ys.some
    THEN [ok |-> TRUE, main |-> ys.val, extent |-> extent0]
    ELSE IF interval.some
    THEN LET yspace == IF isIterable(interval.val) THEN interval.val.val[2]
                       ELSE interval.val.val[1]
             extent == IF buffer_out THEN _buffer_box(extent0, yspace) ELSE extent0
         IN  [ok |-> TRUE,
              main |-> [type |-> "ndarray",
                        num |-> arange(extent[3], extent[4] + yspace, yspace), den |-> 1],
              extent |-> extent]
    ELSE IF n_ticks.some
    THEN LET n_y == IF isIterable(n_ticks.val) THEN n_ticks.val.val[2]
                    ELSE n_ticks.val.val[1]
             pts == linspace(extent0[3], extent0[4], n_y)
         IN  [ok |-> TRUE,
              main |-> [type |-> "ndarray", num |-> pts.num, den |-> pts.den],
              extent |-> extent0]
    ELSE [ok |-> FALSE, main |-> [type |-> "ndarray", num |-> <<>>, den |-> 1],
          extent |-> extent0]

add_gridlines(view_extent, interval, n_ticks, xs, ys, buffer_out) ==
    LET x == XAxis(view_extent, interval, n_ticks, xs, buffer_out) IN
    IF ~x.ok
    THEN Out(<<>>, Error("ValueError", "one of variables interval, n_ticks, or xs must be defined"),
             NoGrid)
    ELSE LET y == YAxis(x.extent, interval, n_ticks, ys, buffer_out) IN
    IF ~y.ok
    THEN Out(<<>>, Error("ValueError", "one of variables interval, n_ticks, or ys must be defined"),
             NoGrid)
    ELSE LET t1 == <<"gridlines">>
             grid == [drawn |-> TRUE, xmain |-> x.main, ymain |-> y.main, extent |-> y.extent]
         IN
         \* a plain list does not compare against a number
         IF x.main.type = "list" \/ y.main.type = "list"
         THEN Out(t1, Error("TypeError", "'>=' not supported between list and float"), grid)
         ELSE Out(t1 \o <<"set_xticks", "set_yticks", "set_xticklabels", "set_yticklabels",
                         "set_major_formatter", "set_major_formatter">>,
                  NoError,
                  [drawn |-> TRUE, xmain |-> x.main, ymain |-> y.main, extent |-> y.extent,
                   xin |-> Within(x.main.num, x.main.den, view_extent[1], view_extent[2]),
                   yin |-> Within(y.main.num, y.main.den, view_extent[3], view_extent[4])])

\* Inputs of add_gridlines.
GridCoords == (0 - MaxGrid)..MaxGrid

ViewExtents ==
    {e \in GridCoords \X GridCoords \X GridCoords \X GridCoords : e[1] < e[2] /\ e[3] < e[4]}

Shaped(t, seq) == [type |-> t, val |-> seq]

GridIntervals ==
    { None } \cup { Some(Shaped("int", <<i>>)) : i \in Intervals }
    \cup { Some(Shaped("tuple", <<i, j>>)) : i \in Intervals, j \in Intervals }

GridTicks == { None, Some(Shaped("int", <<3>>)), Some(Shaped("list", <<2, 4>>)) }

GridExplicit ==
    { None, Some([type |-> "ndarray", num |-> <<0 - 1, 0, 2>>, den |-> 1]),
      Some([type |-> "list", num |-> <<0 - 1, 0, 2>>, den |-> 1]) }

AddGridlines ==
    /\ Idle
    /\ \E view_extent \in ViewExtents, interval \in GridIntervals, n_ticks \in GridTicks,
          xs \in GridExplicit, ys \in GridExplicit, buffer_out \in BOOLEAN :
        LET out == add_gridlines(view_extent, interval, n_ticks, xs, ys, buffer_out) IN
        /\ op' = "add_gridlines"
        /\ args' = [view_extent |-> view_extent, interval |-> interval, n_ticks |-> n_ticks,
                    xs |-> xs, ys |-> ys, buffer_out |-> buffer_out]
        /\ trace' = out.trace
        /\ raised' = out.raised
        /\ result' = out.result

Next == BufferBox \/ BboxToExtent \/ AddLayer \/ AddColorbar \/ AddGridlines

Spec == Init /\ [][Next]_vars

SpecBox == Init /\ [][BufferBox]_vars

SpecExtent == Init /\ [][BboxToExtent]_vars

SpecLayer == Init /\ [][AddLayer]_vars

SpecColorbar == Init /\ [][AddColorbar]_vars

SpecGrid == Init /\ [][AddGridlines]_vars
\* ======================= properties =======================
Events == {trace[k] : k \in DOMAIN trace}
Count(e) == Cardinality({k \in DOMAIN trace : trace[k] = e})
RemoteEvents == {"getInfo", "getThumbUrl", "requests.get"}
DrawEvents == {"imshow"}

LayerWrongType ==
    \/ ~args.img_ok
    \/ args.dims.type \notin {"list", "tuple", "int"}
    \/ ~args.ax_ok

\* C1: every add_layer call with a wrongly typed image handle, dims or axes
\* raises its type error with no remote call issued (neither the
\* geometry/bounds query nor the thumbnail fetch) and nothing drawn.
C1_FailFast ==
    (op = "add_layer" /\ LayerWrongType) =>
        /\ raised.type = "ValueError"
        /\ Events \cap (RemoteEvents \cup DrawEvents) = {}

\* C2: with cmap and a vis_params holding a 'palette' key (other arguments
\* valid) add_layer raises the configuration error, never fetches the
\* thumbnail and draws nothing.
C2_ConflictNoFetch ==
    (/\ op = "add_layer"
     /\ ~LayerWrongType
     /\ args.cmap.some
     /\ args.vis_params.some
     /\ "palette" \in DOMAIN args.vis_params.val) =>
        /\ raised = Error("KeyError",
                          "cannot provide palette in vis_params if cmap is specified")
        /\ Count("getThumbUrl") = 0
        /\ Count("requests.get") = 0
        /\ "imshow" \notin Events
        /\ result.drawn = None

C2_Witness ==
    /\ op = "add_layer"
    /\ raised.type = "KeyError"
    /\ args.cmap = Some("viridis")
    /\ args.vis_params.some
    /\ DOMAIN args.vis_params.val = {"palette", "min"}
    /\ trace = <<"getInfo">>

\* C3: with cmap given and no 'palette' key in vis_params (vis_params
\* omitted or empty included) the outgoing thumbnail request carries a
\* 'palette' entry equal to the comma-joined build_palette(cmap).
C3_CmapInjected ==
    (/\ op = "add_layer"
     /\ ~LayerWrongType
     /\ args.cmap.some
     /\ (args.vis_params.some => "palette" \notin DOMAIN args.vis_params.val)) =>
        /\ result.request.some
        /\ "palette" \in DOMAIN result.request.val
        /\ result.request.val["palette"] =
               Join(<<",">>, build_palette(args.cmap.val, PaletteN))

\* C4: a thumbnail response other than 200 makes add_layer raise with the
\* 'error' message of the response body, after exactly one fetch, without
\* decoding an image or drawing; an image is drawn only after a 200.
C4_Non200Fatal ==
    (op = "add_layer") =>
        /\ Count("requests.get") <= 1
        /\ (Count("requests.get") = 1 /\ args.env.status # 200) =>
              /\ raised.type # "none"
              /\ ("error" \in DOMAIN args.env.body =>
                      raised = Error("HTTPError", args.env.body.error))
              /\ "Image.open" \notin Events
              /\ "imshow" \notin Events
              /\ result.drawn = None
        /\ (result.drawn.some \/ "imshow" \in Events) =>
              /\ args.env.status = 200
              /\ Count("requests.get") = 1
              /\ raised = NoError

C4_Witness ==
    /\ op = "add_layer"
    /\ args.env.status = 400
    /\ raised = Error("HTTPError", "quota exceeded")
    /\ trace = <<"getInfo", "getThumbUrl", "requests.get">>

\* C8: _buffer_box rounds outward to multiples of the interval: every output
\* bound is a multiple of interval, lower bounds do not grow and upper bounds
\* do not shrink, each moves by less than one interval, exact multiples stay,
\* and buffering the result again returns it unchanged.
C8_BufferOutward ==
    (op = "_buffer_box") =>
        LET b == args.bbox
            i == args.interval
            r == result
        IN  /\ \A k \in 1..4 : r[k] % i = 0
            /\ \A k \in {1, 3} : r[k] <= b[k] /\ b[k] - r[k] < i
            /\ \A k \in {2, 4} : r[k] >= b[k] /\ r[k] - b[k] < i
            /\ \A k \in 1..4 : (b[k] % i = 0) => r[k] = b[k]
            /\ _buffer_box(r, i) = r

C8_Witness ==
    /\ op = "_buffer_box"
    /\ args.bbox = <<0 - 3, 4, 0 - 1, 2>>
    /\ args.interval = 2
    /\ result = <<0 - 4, 4, 0 - 2, 2>>

ValidLoc ==
    /\ args.loc.some
    /\ args.loc.val.type = "str"
    /\ args.loc.val.val \in LocNames

NoLoc == ~LocTruthy(args.loc)

\* C5: add_colorbar draws into the sub-region made from loc's fixed
\* rectangle when loc is one of left/right/bottom/top, a caller's cax
\* notwithstanding; into the caller's cax when only cax is given; and raises
\* with nothing added to the figure when neither is given.
C5_SubRegion ==
    (op = "add_colorbar" /\ args.ax_ok) =>
        /\ ValidLoc =>
              /\ result.cax = Some([kind |-> "figure_axes",
                                    rect |-> posOpts[args.loc.val.val]])
              /\ result.cax # Some(UserCax)
              /\ "add_axes" \in Events
              /\ result.cb.some => result.cb.val.target = result.cax.val
        /\ (NoLoc /\ "cax" \in DOMAIN args.kwargs) =>
              /\ result.cax = Some(args.kwargs["cax"])
              /\ "add_axes" \notin Events
              /\ result.cb.some => result.cb.val.target = args.kwargs["cax"]
        /\ (NoLoc /\ "cax" \notin DOMAIN args.kwargs) =>
              /\ raised = Error("ValueError", "loc or cax keywords must be specified")
              /\ trace = <<>>
              /\ result = NoBar

C5_Witness ==
    /\ op = "add_colorbar"
    /\ args.loc = Some([type |-> "str", val |-> "bottom"])
    /\ "cax" \in DOMAIN args.kwargs
    /\ result.cax = Some(FigureAxes(<<25, 15, 50, 2>>))
    /\ trace[1] = "add_axes"

ColourSourceGiven ==
    \/ args.cmap.some
    \/ /\ "palette" \in DOMAIN args.vis_params
       /\ args.vis_params["palette"] = UserPalette

ScalarFields ==
    \A k \in {"min", "max", "opacity"} \cap DOMAIN args.vis_params :
        Scalar(args.vis_params[k])

NormVmin(norm) ==
    IF norm.kind = "Normalize" THEN [num |-> norm.vmin, den |-> 1]
    ELSE [num |-> norm.boundaries.num[1], den |-> norm.boundaries.den]
NormVmax(norm) ==
    IF norm.kind = "Normalize" THEN [num |-> norm.vmax, den |-> 1]
    ELSE [num |-> norm.boundaries.num[Len(norm.boundaries.num)],
          den |-> norm.boundaries.den]

\* C6: for every vis_params (the empty mapping included), with a valid loc
\* or a cax and a colour source, the colorbar is built with vmin =
\* vis_params['min'] or 0, vmax = vis_params['max'] or 1 and alpha =
\* vis_params['opacity'], else the alpha kwarg, else 1; a non-scalar min,
\* max or opacity raises instead.
C6_Defaults ==
    (/\ op = "add_colorbar"
     /\ args.ax_ok
     /\ ValidLoc \/ (NoLoc /\ "cax" \in DOMAIN args.kwargs)
     /\ ColourSourceGiven) =>
        LET vp == args.vis_params
            vmin == IF "min" \in DOMAIN vp THEN vp["min"].v ELSE 0
            vmax == IF "max" \in DOMAIN vp THEN vp["max"].v ELSE 1
            alpha == IF "opacity" \in DOMAIN vp THEN vp["opacity"].v
                     ELSE IF "alpha" \in DOMAIN args.kwargs THEN args.kwargs["alpha"].v
                     ELSE 1
        IN  IF ScalarFields
            THEN /\ result.cb.some
                 /\ NormVmin(result.cb.val.norm).num = vmin * NormVmin(result.cb.val.norm).den
                 /\ NormVmax(result.cb.val.norm).num = vmax * NormVmax(result.cb.val.norm).den
                 /\ result.cb.val.alpha = alpha
            ELSE /\ raised.type = "ValueError"
                 /\ result.cb = None

\* C7: the 'discrete' warning is for discrete without a palette: discrete
\* with a named colour map and no 'palette' key warns and builds a continuous
\* ramp with linear normalization; discrete with a 'palette' key does not
\* warn and builds a listed colour map with boundary normalization.
C7_DiscreteAdvisory ==
    (op = "add_colorbar" /\ args.discrete /\ result.cb.some) =>
        IF "palette" \in DOMAIN args.vis_params
        THEN /\ "warn" \notin Events
             /\ result.cb.val.cmap.kind = "listed"
             /\ result.cb.val.norm.kind = "BoundaryNorm"
        ELSE /\ "warn" \in Events
             /\ raised = NoError
             /\ result.cb.val.cmap.kind = "named"
             /\ result.cb.val.norm.kind = "Normalize"

Distinct(b) == \A j, k \in 1..4 : j # k => b[j] # b[k]

\* C9 (as stated): applying bbox_to_extent twice to a tuple of distinct
\* elements does not give the tuple back.
C9_NotInvolution ==
    (op = "bbox_to_extent" /\ args.calls = 2 /\ Distinct(args.first)) =>
        result # args.first

\* C9 (amended): bbox_to_extent((w, s, e, n)) is (w, e, s, n), and applying
\* it to its own result gives the original tuple back.
C9_Involution ==
    (op = "bbox_to_extent") =>
        /\ result[1] = args.bbox[1] /\ result[2] = args.bbox[3]
        /\ result[3] = args.bbox[2] /\ result[4] = args.bbox[4]
        /\ args.calls = 2 => result = args.first

C9_Witness ==
    /\ op = "bbox_to_extent"
    /\ args.calls = 2
    /\ args.first = <<0 - 2, 0 - 1, 3, 2>>
    /\ args.bbox = <<0 - 2, 3, 0 - 1, 2>>
    /\ result = args.first
PairInterval == args.interval.some /\ args.interval.val.type = "tuple"

\* C10: with a pair interval and buffer_out, the y gridline coordinates are
\* those of the original view extent's (ymin, ymax) buffered with y_interval
\* alone and stepped by y_interval, whatever x_interval and the x extent are;
\* likewise the x coordinates do not depend on y_interval.
C10_AxesIndependent ==
    (/\ op = "add_gridlines"
     /\ PairInterval
     /\ args.buffer_out
     /\ result.drawn) =>
        LET ix == args.interval.val.val[1]
            iy == args.interval.val.val[2]
            v == args.view_extent
            ylo == IF v[3] % iy = 0 THEN v[3] ELSE v[3] - (v[3] % iy)
            yhi == IF v[4] % iy = 0 THEN v[4] ELSE v[4] + (iy - (v[4] % iy))
            xlo == IF v[1] % ix = 0 THEN v[1] ELSE v[1] - (v[1] % ix)
            xhi == IF v[2] % ix = 0 THEN v[2] ELSE v[2] + (ix - (v[2] % ix))
        IN  /\ ~args.ys.some =>
                  result.ymain.num = [k \in 1..((yhi - ylo) \div iy + 1) |-> ylo + (k - 1) * iy]
            /\ ~args.xs.some =>
                  result.xmain.num = [k \in 1..((xhi - xlo) \div ix + 1) |-> xlo + (k - 1) * ix]
\* The claim's shape of one axis: starts at lo, steps by step, stays within hi.
SteppedWithin(seq, lo, hi, step) ==
    /\ Len(seq) >= 1
    /\ seq[1] = lo
    /\ \A k \in 1..(Len(seq) - 1) : seq[k + 1] - seq[k] = step
    /\ \A k \in 1..Len(seq) : seq[k] <= hi

\* C11: with an interval specification, buffer_out true or false, the
\* gridline coordinates of each axis start at the (possibly buffered) extent
\* minimum, step by the interval and never exceed the (possibly buffered)
\* extent maximum.
C11_IntervalSequence ==
    (/\ op = "add_gridlines"
     /\ args.interval.some
     /\ result.drawn) =>
        LET iv == args.interval.val
            ix == iv.val[1]
            iy == IF iv.type = "tuple" THEN iv.val[2] ELSE iv.val[1]
            v == args.view_extent
            xlo == IF args.buffer_out /\ v[1] % ix # 0 THEN v[1] - (v[1] % ix) ELSE v[1]
            xhi == IF args.buffer_out /\ v[2] % ix # 0 THEN v[2] + (ix - (v[2] % ix))
                   ELSE v[2]
        IN  /\ ~args.xs.some => SteppedWithin(result.xmain.num, xlo, xhi, ix)
            /\ ~args.ys.some =>
                  SteppedWithin(result.ymain.num, result.extent[3], result.extent[4], iy)
====
